---- MODULE Spec2Model ----
(***************************************************************************)
(* MIDI bridging between a peer-to-peer data channel, hardware MIDI and    *)
(* RTP-MIDI.  Two machines are modelled:                                   *)
(*   - one ElectronMIDIRTC connection object (platforms/electron.js):      *)
(*     its asynchronous initialize(), close(), and the bridge sendMIDI();  *)
(*   - one WebRTCMIDIManager (webrtc-midi-manager.js) with the connection  *)
(*     objects it creates, its virtual device registry and its stats.      *)
(* The base class MIDIRTCConnection (core/connection.js) is not part of    *)
(* the sources; the few operations of it that are used are modelled from   *)
(* the specification and are named Base*.                                  *)
(***************************************************************************)
EXTENDS Integers, Sequences, FiniteSets, TLC

VARIABLES
    \* ---- ElectronMIDIRTC object ----
    platform,        \* "renderer" | "main" | "other"  (isRenderer / isMain)
    role,            \* "sender" | "receiver"
    bridgeConfig,    \* the four boolean edges
    channelMapping,  \* options.channelMapping, a sequence of <<pattern, channel>>
    initOptions,     \* the options of the pending/last initialize() call
    pc,              \* where initialize() is suspended
    closed,          \* close() has been called (base state 'closed')
    channel,         \* data channel of the base class: "none" | "open" | "closed"
    wrtc,            \* this.wrtc is loaded
    midiAccess,      \* this.midiAccess is non-null
    present,         \* hardware input ports currently attached
    portHandler,     \* port -> "none" | "channel" | "usb" (input.onmidimessage)
    onstatechange,   \* midiAccess.onstatechange is installed
    midi,            \* this.midi is loaded
    midiInputs,      \* this.midiInputs: the opened node-midi ports; {} is null
    rtpMidiSession,  \* "null" | "live"
    rtpMidiEnabled,
    onMIDIMessage,   \* connection.onMIDIMessage: "none" | "bridge" | "host"
    inflight,        \* events of node-midi / RTP-MIDI queued when close() ran
    ev,              \* the last bridge event: what entered
    out,             \* the sends the last bridge event issued, in order
    \* ---- WebRTCMIDIManager and the connection objects it creates ----
    connection,      \* this.connection: 0 is null, else the connection object
    created,         \* how many connection objects have been constructed
    connState,       \* connection object -> state of the base class
    handlers,        \* connection object -> the manager's two callbacks are set
    pendingInit,     \* connection objects whose initialize() is being awaited
    virtualInputs,   \* this.virtualInputs, a Map in insertion order
    virtualOutputs,  \* this.virtualOutputs, a Map in insertion order
    isConnected,
    connectionState,
    stats,
    seen,            \* connection object -> targets it has delivered so far
    mev,             \* the last manager operation
    notes,           \* the observer calls the last manager operation made
    told,            \* the last state the onConnectionStateChange observer got
    outputSessions,  \* connection objects whose 'connected' created outputs
    \* ---- the order of messages, recorded for one of the two machines ----
    probe,           \* "none" | "bridge" | "manager": whose messages are numbered
    arrived,         \* how many messages have been numbered
    wire,            \* destination -> the <<origin, number>> it was given, in order
    assigned,        \* what the host last assigned to the bridge's onMIDIMessage
    \* ---- WebRTCMIDIUI, when the host of the manager is the UI ----
    ui,              \* the manager was created by a WebRTCMIDIUI
    statsInterval,   \* this.statsInterval is non-null
    timers,          \* how many interval timers are active
    statusText,      \* statusText.textContent
    disconnectBtn    \* "enabled" | "disabled"

bvars == <<platform, role, bridgeConfig, channelMapping, initOptions, pc, closed,
           channel, wrtc, midiAccess, present, portHandler, onstatechange, midi,
           midiInputs, rtpMidiSession, rtpMidiEnabled, onMIDIMessage, inflight,
           ev, out>>

mvars == <<connection, created, connState, handlers, pendingInit, virtualInputs,
           virtualOutputs, isConnected, connectionState, stats, seen, mev, notes,
           told, outputSessions>>

gvars == <<probe, arrived, wire, assigned>>

uvars == <<ui, statsInterval, timers, statusText, disconnectBtn>>

vars == <<bvars, mvars, gvars, uvars>>

NULL == "null"

\* ------------------------------------------------------------------ domains

Sources == {"usb", "rtpmidi", "webrtc"}

\* Hardware device names; a name is known by the substrings it contains.
DeviceNames == {"Keyboard X1", "X1 Pad"}

Platforms == {"renderer", "main", "other"}

\* Targets a host hands to sendMIDI.
HostTargets == {"lead", "usb", "rtpmidi", "webrtc"}

\* options.channelMapping values tried: none, a plain channel, a channel that is
\* also a source name, and an override of a built-in pattern.
ChannelMappings ==
    { << >>,
      << <<"X1", "lead">> >>,
      << <<"x1", "rtpmidi">> >>,
      << <<"Keyboard", "feedback">> >> }

BridgeConfigs ==
    [webrtcToRtpMidi : BOOLEAN, rtpMidiToWebRTC : BOOLEAN,
     usbToWebRTC : BOOLEAN, usbToRtpMidi : BOOLEAN]

InitOptionSets == [autoConnectMIDI : BOOLEAN, enableRtpMidi : BOOLEAN]

isRenderer == platform = "renderer"

isMain == platform = "main"

\* ------------------------------------------------------------------ strings

\* String.prototype.toLowerCase on the words used here.
toLowerCase(s) ==
    CASE s = "Keyboard X1" -> "keyboard x1"
      [] s = "X1 Pad"      -> "x1 pad"
      [] s = "X1"          -> "x1"
      [] s = "Keyboard"    -> "keyboard"
      [] OTHER             -> s

\* String.prototype.includes(name, pattern) on the names and patterns used here
\* (case-sensitive, as in JavaScript).
includes(name, pattern) ==
    CASE name = "keyboard x1" -> pattern \in {"keyboard", "x1"}
      [] name = "x1 pad"      -> pattern \in {"x1", "pad"}
      [] name = "Keyboard X1" -> pattern \in {"Keyboard", "X1"}
      [] name = "X1 Pad"      -> pattern \in {"X1", "Pad"}
      [] OTHER                -> FALSE

\* The first entry of the custom mapping whose pattern matches, from index i on.
RECURSIVE CustomChannel(_, _, _)
CustomChannel(mapping, name, i) ==
    IF i > Len(mapping) THEN "default"
    ELSE IF includes(name, toLowerCase(mapping[i][1])) THEN mapping[i][2]
    ELSE CustomChannel(mapping, name, i + 1)

getChannelForDevice(deviceName) ==
    LET name == toLowerCase(deviceName) IN
    IF includes(name, "keyboard") \/ includes(name, "piano") THEN "synth"
    ELSE IF includes(name, "launchpad") \/ includes(name, "apc")
            \/ includes(name, "fighter") THEN "control"
    ELSE IF includes(name, "clock") \/ includes(name, "sync") THEN "clock"
    ELSE CustomChannel(channelMapping, name, 1)

\* ------------------------------------------------------------------ sendMIDI

\* The transports whose send may fail while a message is forwarded.
Faults == SUBSET {"webrtc", "rtpmidi"}

\* An exception that leaves the function being modelled.
Thrown == [dest |-> "throw", target |-> "-", ok |-> FALSE]

\* Base class sendMIDI: frames the payload with the target and transmits it
\* on the data channel when the channel is open.  A failed transmission is
\* absorbed (logged), it does not throw.  fails: the transports failing now.
BaseSendMIDI(target, fails) ==
    IF channel = "open"
    THEN << [dest |-> "webrtc", target |-> target, ok |-> "webrtc" \notin fails] >>
    ELSE << >>

sendMIDItoRtpMidiUncaught(fails) ==
    IF ~rtpMidiEnabled \/ rtpMidiSession = NULL THEN << >>
    ELSE IF "rtpmidi" \in fails
         THEN << [dest |-> "rtpmidi", target |-> "-", ok |-> FALSE], Thrown >>
         ELSE << [dest |-> "rtpmidi", target |-> "-", ok |-> TRUE] >>

\* sendMIDItoRtpMidi: the exception of a failing sendMessage is caught.
sendMIDItoRtpMidi(fails) ==
    IF ~rtpMidiEnabled \/ rtpMidiSession = NULL THEN << >>
    ELSE << [dest |-> "rtpmidi", target |-> "-", ok |-> "rtpmidi" \notin fails] >>

isSource(channelOrSource) == channelOrSource \in {"usb", "rtpmidi", "webrtc"}

SendChannelAlwaysDefault(channelOrSource) == "default"

SendChannel(channelOrSource) ==
    IF isSource(channelOrSource) THEN "default" ELSE channelOrSource

SendSourceAlwaysUsb(channelOrSource) == "usb"

SendSource(channelOrSource) ==
    IF isSource(channelOrSource) THEN channelOrSource ELSE "usb"

shouldSendToWebRTC(source) ==
    \/ source = "usb" /\ bridgeConfig.usbToWebRTC
    \/ source = "rtpmidi" /\ bridgeConfig.rtpMidiToWebRTC

shouldSendToRtpMidi(source) ==
    \/ source = "usb" /\ bridgeConfig.usbToRtpMidi
    \/ source = "webrtc" /\ bridgeConfig.webrtcToRtpMidi

\* s ends with an exception: the statements after the call are not run.
Throws(s) == Len(s) > 0 /\ s[Len(s)].dest = "throw"

\* ElectronMIDIRTC.sendMIDI: the sequence of sends it issues.  The send on
\* the data channel is not inside a try block: an exception of it would skip
\* the RTP-MIDI part.
sendMIDI(channelOrSource, fails) ==
    LET chan   == SendChannel(channelOrSource)
        source == SendSource(channelOrSource)
        toWebRTC ==
            IF source # "webrtc" /\ shouldSendToWebRTC(source)
            THEN BaseSendMIDI(chan, fails) ELSE << >>
        toRtpMidi ==
            IF isMain /\ rtpMidiEnabled /\ source # "rtpmidi"
               /\ shouldSendToRtpMidi(source)
            THEN sendMIDItoRtpMidi(fails) ELSE << >>
    IN IF Throws(toWebRTC) THEN toWebRTC ELSE toWebRTC \o toRtpMidi

\* The handler setupMIDIBridging installs for inbound peer-to-peer messages.
BridgingHandler(fails) ==
    IF isMain /\ rtpMidiEnabled /\ bridgeConfig.webrtcToRtpMidi
    THEN sendMIDI("webrtc", fails) ELSE << >>

NoEvent == [origin |-> "none", tag |-> "-", late |-> FALSE]

\* ------------------------------------------------------------------ order

\* How many messages are numbered while their order is recorded.
MaxArrivals == 2

WireDests == {"webrtc", "rtpmidi", "host"}

TransmitAhead(log, m) == << m >> \o log

\* A transport, or the host, is handed message m: it comes after everything
\* it was handed before.
Transmit(log, m) == Append(log, m)

\* The messages are not numbered.
ProbeOff ==
    /\ probe = "none"
    /\ arrived = 0
    /\ wire = [d \in WireDests |-> << >>]
    /\ assigned = "none"

\* The manager's host is not the UI.
NoUI ==
    /\ ui = FALSE
    /\ statsInterval = FALSE
    /\ timers = 0
    /\ statusText = "-"
    /\ disconnectBtn = "-"

\* The bridge event of this step gets the next number; every destination on
\* which its send succeeded is handed the message.
RecordBridge ==
    IF probe = "bridge"
    THEN /\ arrived < MaxArrivals
         /\ arrived' = arrived + 1
         /\ wire' = [d \in WireDests |->
                        IF \E i \in 1 .. Len(out') : out'[i].dest = d /\ out'[i].ok
                        THEN Transmit(wire[d], << ev'.origin, arrived + 1 >>)
                        ELSE wire[d]]
         /\ UNCHANGED <<probe, assigned>>
    ELSE UNCHANGED gvars

\* ev and out describe the last step only when it was a message event.
ClearEvent ==
    /\ ev' = NoEvent
    /\ out' = << >>
    /\ UNCHANGED gvars

\* ------------------------------------------------------------------ Init

\* The state of a connection object after its constructor.
BridgeConstructed ==
    /\ initOptions = [autoConnectMIDI |-> TRUE, enableRtpMidi |-> TRUE]
    /\ pc = "idle"
    /\ closed = FALSE
    /\ channel = "none"
    /\ wrtc = FALSE
    /\ midiAccess = FALSE
    /\ present = {}
    /\ portHandler = [d \in DeviceNames |-> "none"]
    /\ onstatechange = FALSE
    /\ midi = FALSE
    /\ midiInputs = {}
    /\ rtpMidiSession = NULL
    /\ rtpMidiEnabled = FALSE
    /\ onMIDIMessage = "none"
    /\ inflight = {}
    /\ ev = NoEvent
    /\ out = << >>

\* new ElectronMIDIRTC(role, options) in any environment, with any bridge
\* options and any of the channel mappings.
InitBridge ==
    /\ platform \in Platforms
    /\ role \in {"sender", "receiver"}
    /\ bridgeConfig \in BridgeConfigs
    /\ channelMapping \in ChannelMappings
    /\ BridgeConstructed

\* The bridge options when none is given: every edge enabled.
DefaultBridgeConfig ==
    [webrtcToRtpMidi |-> TRUE, rtpMidiToWebRTC |-> TRUE,
     usbToWebRTC |-> TRUE, usbToRtpMidi |-> TRUE]

\* One connection object left as constructed, with the default options.
InitBridgeDefault ==
    /\ platform = "renderer"
    /\ role = "receiver"
    /\ bridgeConfig = DefaultBridgeConfig
    /\ channelMapping = << >>
    /\ BridgeConstructed

\* ------------------------------------------------------------------ initialize

\* Where initialize() goes once the MIDI step is over: the RTP-MIDI import
\* (main process only), or straight to setupMIDIBridging and the end.
RtpStage ==
    IF isMain /\ initOptions'.enableRtpMidi THEN "rtp" ELSE "done"

\* setupMIDIBridging, run when initialize() reaches its last statement.
setupMIDIBridging(nextPc) ==
    onMIDIMessage' = IF nextPc = "done" THEN "bridge" ELSE onMIDIMessage

\* initialize(options) up to its first await.  It is called once, on a
\* connection object that has just been constructed.
Initialize(options) ==
    /\ pc = "idle"
    /\ ~closed
    /\ initOptions' = options
    /\ pc' = IF isMain THEN "wrtc" ELSE "super"
    /\ UNCHANGED <<mvars, uvars, platform, role, bridgeConfig, channelMapping, closed, channel,
                   wrtc, midiAccess, present, portHandler, onstatechange, midi,
                   midiInputs, rtpMidiSession, rtpMidiEnabled, onMIDIMessage,
                   inflight>>
    /\ ClearEvent

\* import('wrtc') settles.
ResumeWrtc(ok) ==
    /\ pc = "wrtc"
    /\ wrtc' = ok
    /\ pc' = IF ok THEN "super" ELSE "failed"
    /\ UNCHANGED <<mvars, uvars, platform, role, bridgeConfig, channelMapping, initOptions,
                   closed, channel, midiAccess, present, portHandler,
                   onstatechange, midi, midiInputs, rtpMidiSession,
                   rtpMidiEnabled, onMIDIMessage, inflight>>
    /\ ClearEvent

\* createPeerConnection: throws outside the renderer when wrtc is not loaded.
createPeerConnectionThrows == ~isRenderer /\ ~wrtc

autoConnectsMIDIAnyRole == initOptions.autoConnectMIDI

\* initialize() connects to MIDI: the role is sender and options.autoConnectMIDI
\* is not false.
autoConnectsMIDI == role = "sender" /\ initOptions.autoConnectMIDI

\* super.initialize() settles; then connectMIDI up to its await, or on to the
\* RTP-MIDI step.  hasWebMIDI: navigator.requestMIDIAccess exists.
ResumeSuper(ok, hasWebMIDI) ==
    /\ pc = "super"
    /\ UNCHANGED initOptions
    /\ LET wantMIDI == autoConnectsMIDI
           nextPc ==
               IF ~ok \/ createPeerConnectionThrows THEN "failed"
               ELSE IF wantMIDI /\ (~isRenderer \/ hasWebMIDI) THEN "midi"
               ELSE RtpStage
       IN /\ pc' = nextPc
          /\ setupMIDIBridging(nextPc)
    /\ UNCHANGED <<mvars, uvars, platform, role, bridgeConfig, channelMapping, closed, channel,
                   wrtc, midiAccess, present, portHandler, onstatechange, midi,
                   midiInputs, rtpMidiSession, rtpMidiEnabled, inflight>>
    /\ ClearEvent

\* setupWebMIDIInputs: a handler on every attached input, and onstatechange.
setupWebMIDIInputs ==
    /\ portHandler' = [d \in DeviceNames |->
                          IF d \in present THEN "channel" ELSE portHandler[d]]
    /\ onstatechange' = TRUE

\* setupNodeMIDIInputs: opens every port; with no port the field is left alone.
setupNodeMIDIInputs ==
    midiInputs' = IF present = {} THEN midiInputs ELSE present

\* Base class handleError(error): the error is logged; the core has no error
\* hook to call.
BaseHandleError == << >>

\* navigator.requestMIDIAccess (renderer) or import('midi') (otherwise) settles.
\* A refused requestMIDIAccess is logged and handed to handleError; a failed
\* import is logged.  Either way connectMIDI returns false.
ResumeMidi(ok) ==
    /\ pc = "midi"
    /\ UNCHANGED initOptions
    /\ IF isRenderer
       THEN /\ midiAccess' = (ok \/ midiAccess)
            /\ IF ok THEN setupWebMIDIInputs
                     ELSE UNCHANGED <<portHandler, onstatechange>>
            /\ UNCHANGED <<midi, midiInputs>>
       ELSE /\ midi' = (ok \/ midi)
            /\ IF ok THEN setupNodeMIDIInputs ELSE UNCHANGED midiInputs
            /\ UNCHANGED <<midiAccess, portHandler, onstatechange>>
    /\ pc' = RtpStage
    /\ setupMIDIBridging(RtpStage)
    /\ UNCHANGED <<mvars, uvars, platform, role, bridgeConfig, channelMapping, closed, channel,
                   wrtc, present, rtpMidiSession, rtpMidiEnabled, inflight>>
    /\ ev' = NoEvent
    /\ out' = IF isRenderer /\ ~ok THEN BaseHandleError ELSE << >>
    /\ UNCHANGED gvars

ResumeRtpThrowing(ok) ==
    /\ pc = "rtp"
    /\ rtpMidiSession' = IF ok THEN "live" ELSE rtpMidiSession
    /\ rtpMidiEnabled' = (ok \/ rtpMidiEnabled)
    /\ pc' = IF ok THEN "done" ELSE "failed"
    /\ setupMIDIBridging(IF ok THEN "done" ELSE "failed")
    /\ UNCHANGED <<mvars, uvars, platform, role, bridgeConfig, channelMapping, initOptions,
                   closed, channel, wrtc, midiAccess, present, portHandler,
                   onstatechange, midi, midiInputs, inflight>>
    /\ ClearEvent

\* import('rtpmidi') settles: connectRtpMidi creates the session, or logs.
ResumeRtp(ok) ==
    /\ pc = "rtp"
    /\ rtpMidiSession' = IF ok THEN "live" ELSE rtpMidiSession
    /\ rtpMidiEnabled' = (ok \/ rtpMidiEnabled)
    /\ pc' = "done"
    /\ setupMIDIBridging("done")
    /\ UNCHANGED <<mvars, uvars, platform, role, bridgeConfig, channelMapping, initOptions,
                   closed, channel, wrtc, midiAccess, present, portHandler,
                   onstatechange, midi, midiInputs, inflight>>
    /\ ClearEvent

\* ------------------------------------------------------------------ close

\* Base class close(): releases the data channel; the state becomes 'closed'.
BaseClose ==
    /\ closed' = TRUE
    /\ channel' = "closed"

\* The elements of a set of ports, one after the other.
RECURSIVE PortSeq(_)
PortSeq(ports) ==
    IF ports = {} THEN << >>
    ELSE LET p == CHOOSE q \in ports : TRUE
         IN << p >> \o PortSeq(ports \ {p})

\* The handles close() releases: closePort() on every opened node-midi port,
\* end() on the RTP-MIDI session, and the base class's release of the peer
\* connection, which it does once.
Releases ==
    [i \in 1 .. Cardinality(midiInputs) |->
        [dest |-> "closePort", target |-> PortSeq(midiInputs)[i], ok |-> TRUE]]
    \o (IF rtpMidiSession # NULL
        THEN << [dest |-> "end", target |-> "-", ok |-> TRUE] >> ELSE << >>)
    \o (IF ~closed
        THEN << [dest |-> "base.close", target |-> "-", ok |-> TRUE] >> ELSE << >>)

CloseKeepingPorts ==
    /\ portHandler' = IF midiAccess
                      THEN [d \in DeviceNames |->
                               IF d \in present THEN "none" ELSE portHandler[d]]
                      ELSE portHandler
    /\ onstatechange' = IF midiAccess THEN FALSE ELSE onstatechange
    /\ midiAccess' = FALSE
    /\ midiInputs' = midiInputs
    /\ rtpMidiSession' = NULL
    /\ rtpMidiEnabled' = IF rtpMidiSession # NULL THEN FALSE ELSE rtpMidiEnabled
    /\ BaseClose
    /\ inflight' \in SUBSET ((IF midiInputs # {} THEN {"usb"} ELSE {})
                             \cup (IF rtpMidiSession # NULL THEN {"rtpmidi"} ELSE {})
                             \cup inflight)
    /\ ev' = [origin |-> "close", tag |-> "-", late |-> FALSE]
    /\ out' = Releases
    /\ UNCHANGED gvars
    /\ UNCHANGED <<mvars, uvars, platform, role, bridgeConfig, channelMapping, initOptions, pc,
                   wrtc, present, midi, onMIDIMessage>>

\* ElectronMIDIRTC.close().  A node-midi or RTP-MIDI event may be queued
\* already when the port or session is shut.
Close ==
    /\ portHandler' = IF midiAccess
                      THEN [d \in DeviceNames |->
                               IF d \in present THEN "none" ELSE portHandler[d]]
                      ELSE portHandler
    /\ onstatechange' = IF midiAccess THEN FALSE ELSE onstatechange
    /\ midiAccess' = FALSE
    /\ midiInputs' = {}
    /\ rtpMidiSession' = NULL
    /\ rtpMidiEnabled' = IF rtpMidiSession # NULL THEN FALSE ELSE rtpMidiEnabled
    /\ BaseClose
    /\ inflight' \in SUBSET ((IF midiInputs # {} THEN {"usb"} ELSE {})
                             \cup (IF rtpMidiSession # NULL THEN {"rtpmidi"} ELSE {})
                             \cup inflight)
    /\ ev' = [origin |-> "close", tag |-> "-", late |-> FALSE]
    /\ out' = Releases
    /\ UNCHANGED gvars
    /\ UNCHANGED <<mvars, uvars, platform, role, bridgeConfig, channelMapping, initOptions, pc,
                   wrtc, present, midi, onMIDIMessage>>

\* ------------------------------------------------------------------ events

\* What an event leaves alone: everything but the record of the event.
EventFrame ==
    /\ UNCHANGED <<mvars, uvars, platform, role, bridgeConfig, channelMapping, initOptions,
                   pc, closed, channel, wrtc, midiAccess, present, portHandler,
                   onstatechange, midi, midiInputs, rtpMidiSession,
                   rtpMidiEnabled, onMIDIMessage>>
    /\ RecordBridge

\* The handshake of the base class completes: the data channel opens.
BaseChannelOpen ==
    /\ ~closed
    /\ pc \in {"midi", "rtp", "done"}
    /\ channel = "none"
    /\ channel' = "open"
    /\ UNCHANGED <<mvars, uvars, platform, role, bridgeConfig, channelMapping, initOptions, pc,
                   closed, wrtc, midiAccess, present, portHandler, onstatechange,
                   midi, midiInputs, rtpMidiSession, rtpMidiEnabled,
                   onMIDIMessage, inflight>>
    /\ ClearEvent

\* A hardware input is attached; midiAccess.onstatechange gives it a handler.
Plug(d) ==
    /\ d \notin present
    /\ present' = present \cup {d}
    /\ portHandler' = IF onstatechange THEN [portHandler EXCEPT ![d] = "usb"]
                      ELSE portHandler
    /\ UNCHANGED <<mvars, uvars, platform, role, bridgeConfig, channelMapping, initOptions, pc,
                   closed, channel, wrtc, midiAccess, onstatechange, midi,
                   midiInputs, rtpMidiSession, rtpMidiEnabled, onMIDIMessage,
                   inflight>>
    /\ ClearEvent

\* The target the onmidimessage handler of port d hands to sendMIDI: the
\* handler setupWebMIDIInputs installs on a port that is there asks
\* getChannelForDevice, the one onstatechange installs passes 'usb'.
HandlerTarget(d) ==
    IF portHandler[d] = "channel" THEN getChannelForDevice(d) ELSE "usb"

\* input.onmidimessage of a Web MIDI port fires.
WebMIDIMessage(d) ==
    /\ d \in present
    /\ portHandler[d] # "none"
    /\ LET tag == HandlerTarget(d)
       IN /\ ev' = [origin |-> "usb", tag |-> tag, late |-> FALSE]
          /\ \E fails \in Faults : out' = sendMIDI(tag, fails)
    /\ UNCHANGED inflight
    /\ EventFrame

\* The 'message' listener of an opened node-midi port fires.
NodeMIDIMessage(p) ==
    /\ p \in midiInputs
    /\ ev' = [origin |-> "usb", tag |-> "usb", late |-> FALSE]
    /\ \E fails \in Faults : out' = sendMIDI("usb", fails)
    /\ UNCHANGED inflight
    /\ EventFrame

\* The 'message' listener of the RTP-MIDI session fires.
RtpMidiMessage ==
    /\ rtpMidiSession = "live"
    /\ ev' = [origin |-> "rtpmidi", tag |-> "rtpmidi", late |-> FALSE]
    /\ \E fails \in Faults : out' = sendMIDI("rtpmidi", fails)
    /\ UNCHANGED inflight
    /\ EventFrame

\* A listener fires for an event that was queued when close() ran: the
\* listeners of node-midi ports and of the session are never removed.
LateMessage(s) ==
    /\ s \in inflight
    /\ inflight' = inflight \ {s}
    /\ ev' = [origin |-> s, tag |-> s, late |-> TRUE]
    /\ \E fails \in Faults : out' = sendMIDI(s, fails)
    /\ EventFrame

\* A frame arrives on the data channel; the base class hands it to onMIDIMessage.
WebRTCMessage ==
    /\ channel = "open"
    /\ ev' = [origin |-> "webrtc", tag |-> "webrtc", late |-> FALSE]
    /\ \E fails \in Faults :
          out' = IF onMIDIMessage = "bridge" THEN BridgingHandler(fails)
                 ELSE IF onMIDIMessage = "host"
                 THEN << [dest |-> "host", target |-> "-", ok |-> TRUE] >>
                 ELSE << >>
    /\ UNCHANGED inflight
    /\ EventFrame

\* The host calls sendMIDI(data, timestamp, target).
HostSendMIDI(target) ==
    /\ ev' = [origin |-> "host", tag |-> target, late |-> FALSE]
    /\ \E fails \in Faults : out' = sendMIDI(target, fails)
    /\ UNCHANGED inflight
    /\ EventFrame

\* The host assigns its observer (or null) to the onMIDIMessage field of the
\* connection object.
AssignOnMIDIMessage(h) ==
    /\ onMIDIMessage' = h
    /\ assigned' = h
    /\ ev' = NoEvent
    /\ out' = << >>
    /\ UNCHANGED <<mvars, uvars, probe, arrived, wire, platform, role, bridgeConfig,
                   channelMapping, initOptions, pc, closed, channel, wrtc,
                   midiAccess, present, portHandler, onstatechange, midi,
                   midiInputs, rtpMidiSession, rtpMidiEnabled, inflight>>

NextBridge ==
    \/ \E o \in InitOptionSets : Initialize(o)
    \/ \E ok \in BOOLEAN : ResumeWrtc(ok)
    \/ \E ok \in BOOLEAN, hasWebMIDI \in BOOLEAN : ResumeSuper(ok, hasWebMIDI)
    \/ \E ok \in BOOLEAN : ResumeMidi(ok)
    \/ \E ok \in BOOLEAN : ResumeRtp(ok)
    \/ Close
    \/ BaseChannelOpen
    \/ \E d \in DeviceNames : Plug(d)
    \/ \E d \in DeviceNames : WebMIDIMessage(d)
    \/ \E p \in DeviceNames : NodeMIDIMessage(p)
    \/ RtpMidiMessage
    \/ \E s \in {"usb", "rtpmidi"} : LateMessage(s)
    \/ WebRTCMessage
    \/ \E t \in HostTargets : HostSendMIDI(t)

\* ====================================================== the bridge's claims

\* The destinations the last bridge event was sent on, in order.
Dests == [i \in 1 .. Len(out) |-> out[i].dest]

SentOn(d) == \E i \in 1 .. Len(out) : out[i].dest = d

\* The targets of the peer-to-peer transmissions of the last bridge event.
WebRTCTargets == { out[i].target : i \in { j \in 1 .. Len(out) : out[j].dest = "webrtc" } }

\* C1: loop-freedom.  A message that entered from transport O (hardware,
\* RTP-MIDI or the peer-to-peer channel) is never sent on O, whatever the
\* bridge configuration; hardware is "usb".
C1_LoopFreedom ==
    ev.origin \in Sources => ~SentOn(ev.origin)

\* An RTP-MIDI message was bridged: it went to the peer-to-peer channel only.
C1_Witness ==
    /\ ev.origin = "rtpmidi"
    /\ bridgeConfig = DefaultBridgeConfig
    /\ Dests = << "webrtc" >>

\* A destination can be sent on: the data channel is open, the RTP-MIDI
\* session exists in the main process.  No hardware output is ever opened.
Available(d) ==
    CASE d = "webrtc"  -> channel = "open"
      [] d = "rtpmidi" -> isMain /\ rtpMidiEnabled /\ rtpMidiSession # NULL
      [] OTHER         -> FALSE

\* The configured edge from origin o to destination d.
Edge(o, d) ==
    CASE o = "usb" /\ d = "webrtc"      -> bridgeConfig.usbToWebRTC
      [] o = "usb" /\ d = "rtpmidi"     -> bridgeConfig.usbToRtpMidi
      [] o = "rtpmidi" /\ d = "webrtc"  -> bridgeConfig.rtpMidiToWebRTC
      [] o = "webrtc" /\ d = "rtpmidi"  -> bridgeConfig.webrtcToRtpMidi
      [] OTHER                          -> FALSE

\* C5: a message with origin O is sent on every other available transport D
\* if and only if the edge O -> D is enabled.
C5_ForwardIffEdge ==
    ev.origin \in Sources =>
        \A d \in Sources \ {ev.origin} :
            Available(d) => (SentOn(d) <=> Edge(ev.origin, d))

HandlesReleased ==
    /\ ~midiAccess
    /\ ~onstatechange
    /\ \A d \in DeviceNames : portHandler[d] = "none"
    /\ midiInputs = {}
    /\ rtpMidiSession = NULL
    /\ ~rtpMidiEnabled

\* C10: once close() has been called and no continuation of initialize() is
\* pending any more, every hardware and RTP-MIDI handle is released.
C10_CloseReleasesHandles ==
    (closed /\ pc \in {"idle", "done", "failed"}) => HandlesReleased

\* C4: after close(), no event of the closed connection (a hardware, RTP-MIDI
\* or peer-to-peer message, late or not) causes a send.
C4_NoSendAfterClose ==
    (closed /\ ev.origin \in Sources) => out = << >>

\* The hardware MIDI capability was asked for and is not there: Web MIDI is
\* missing or was refused, or the midi library did not load.
MidiUnavailable ==
    /\ role = "sender"
    /\ initOptions.autoConnectMIDI
    /\ IF isRenderer THEN ~midiAccess ELSE ~midi

\* The rtpmidi library was asked for and did not load.
RtpUnavailable ==
    /\ isMain
    /\ initOptions.enableRtpMidi
    /\ rtpMidiSession = NULL

\* initialize() has completed on an open connection with a capability missing.
Degraded ==
    /\ pc = "done"
    /\ ~closed
    /\ MidiUnavailable \/ RtpUnavailable

\* The last message was forwarded on every available transport but its own
\* exactly as the edges say.
ForwardedByEdges ==
    ev.origin \in Sources =>
        \A d \in Sources \ {ev.origin} :
            Available(d) => (SentOn(d) <=> Edge(ev.origin, d))

SendsOn(d) == Cardinality({ i \in 1 .. Len(out) : out[i].dest = d })

\* C17: with usbToWebRTC enabled, usbToRtpMidi disabled and the data channel
\* open, a hardware message is transmitted exactly once on the data channel,
\* with target "default" when its port gave no other target, and never on
\* RTP-MIDI, whatever the other two edges are.
C17_ScenarioA ==
    (/\ ev.origin = "usb"
     /\ channel = "open"
     /\ bridgeConfig.usbToWebRTC
     /\ ~bridgeConfig.usbToRtpMidi)
    => /\ SendsOn("webrtc") = 1
       /\ ev.tag \in {"usb", "default"} => WebRTCTargets = {"default"}
       /\ ~SentOn("rtpmidi")

\* A send of the last bridge event failed.
SendFailed == \E i \in 1 .. Len(out) : ~out[i].ok

DestsFor(channelOrSource) ==
    [i \in 1 .. Len(sendMIDI(channelOrSource, {})) |->
        sendMIDI(channelOrSource, {})[i].dest]

\* The targets a message may carry into sendMIDI: what a host hands over and
\* what getChannelForDevice gives for a device.
EnteringTargets == HostTargets \cup { getChannelForDevice(d) : d \in DeviceNames }

\* C22: the transports a message is forwarded to depend on its origin and the
\* bridge configuration only: the last hardware or host message was sent to
\* the destinations it would have been sent to with any other target.
C22_TargetIndependentRouting ==
    (ev.origin \in {"usb", "host"} /\ ~ev.late) =>
        \A t \in EnteringTargets : DestsFor(t) = Dests
\* C24: a device name that matches a pattern of options.channelMapping gets
\* the channel configured for that pattern, also when the name matches one
\* of the built-in patterns.
C24_ChannelMappingOverrides ==
    \A d \in DeviceNames, i \in 1 .. Len(channelMapping) :
        includes(toLowerCase(d), toLowerCase(channelMapping[i][1]))
            => getChannelForDevice(d) = channelMapping[i][2]
\* A hardware input listener is installed, or hardware MIDI is connected.
HardwareAttached ==
    \/ midiAccess
    \/ onstatechange
    \/ \E d \in DeviceNames : portHandler[d] # "none"
    \/ midi
    \/ midiInputs # {}

\* C25: a connection whose role is not sender, or that was initialized with
\* autoConnectMIDI false, never installs a hardware input listener, and no
\* hardware message is ever handled or transmitted by it.
C25_HardwareOnlyForSender ==
    (role # "sender" \/ ~initOptions.autoConnectMIDI) =>
        /\ ~HardwareAttached
        /\ ev.origin # "usb"
        /\ inflight \subseteq {"rtpmidi"}

\* A receiver has completed initialize() in a renderer with Web MIDI, its
\* data channel is open and a device has been plugged in: no listener.
C25_Witness ==
    /\ role = "receiver"
    /\ isRenderer
    /\ initOptions.autoConnectMIDI
    /\ pc = "done"
    /\ channel = "open"
    /\ present = DeviceNames
    /\ ev.origin = "host"
    /\ SentOn("webrtc")
\* C28: in the main process with RTP-MIDI enabled and webrtcToRtpMidi set,
\* every inbound peer-to-peer message is sent on RTP-MIDI, whatever the host
\* has assigned to onMIDIMessage and whenever it did; and the observer the
\* host has assigned is handed the message.
C28_BridgingSurvivesObserver ==
    (ev.origin = "webrtc" /\ ~closed) =>
        /\ (isMain /\ rtpMidiEnabled /\ rtpMidiSession # NULL
               /\ bridgeConfig.webrtcToRtpMidi) => SentOn("rtpmidi")
        /\ assigned = "host" => SentOn("host")
\* C29: the messages of a hardware input carry the same target whether the
\* device was there when Web MIDI was connected or was plugged in later:
\* every installed handler hands sendMIDI getChannelForDevice(name).
C29_HotPlugSameTarget ==
    \A d \in present :
        portHandler[d] # "none" => HandlerTarget(d) = getChannelForDevice(d)

\* ====================================================== WebRTCMIDIManager

MaxConns == 2

MaxMessages == 2

Conns == 1 .. MaxConns

\* Targets of the envelopes that arrive (decode gives "default" to an envelope
\* without target).
InboundTargets == {"default", "synth"}

PayloadLengths == {1, 3}

Latencies == {4}

defaultTargets == << "default", "synth", "control", "feedback" >>

\* The three observers the host assigns before it calls initialize().
onTargetDiscovered == TRUE

onMIDIMessageObserver == TRUE

onConnectionStateChange == TRUE

\* ---- Map, in insertion order: a sequence of entries keyed by .target ----

MapHas(m, key) == \E i \in 1 .. Len(m) : m[i].target = key

MapGet(m, key) == m[CHOOSE i \in 1 .. Len(m) : m[i].target = key]

MapSetAppending(m, entry) == Append(m, entry)

\* Map.prototype.set: an existing key keeps its place and takes the new value.
MapSet(m, entry) ==
    IF MapHas(m, entry.target)
    THEN [i \in 1 .. Len(m) |->
             IF m[i].target = entry.target THEN entry ELSE m[i]]
    ELSE Append(m, entry)

MapKeys(m) == [i \in 1 .. Len(m) |-> m[i].target]

\* ---- virtual devices ----

\* The id of the device object created for a target.
InputId(target) == << "webrtc-midi-", target >>

OutputId(target) == << "webrtc-midi-out-", target >>

createVirtualInputAppending(inputs, target) ==
    Append(inputs, [target |-> target, onmidimessage |-> FALSE])

\* The registry after createVirtualInput(target): a new device object, with
\* no onmidimessage handler, is stored under the target.
createVirtualInput(inputs, target) ==
    MapSet(inputs, [target |-> target, onmidimessage |-> FALSE])

\* The discovery notification createVirtualInput fires.
DiscoveryNotes(target) ==
    IF onTargetDiscovered THEN << [kind |-> "discovered", arg |-> target] >>
    ELSE << >>

\* The registry after createVirtualOutput(target).
createVirtualOutput(outputs, target) ==
    MapSet(outputs, [target |-> target])

\* defaultTargets.forEach(target => this.createVirtualOutput(target)), from i on.
RECURSIVE CreateDefaultOutputs(_, _)
CreateDefaultOutputs(outputs, i) ==
    IF i > Len(defaultTargets) THEN outputs
    ELSE CreateDefaultOutputs(createVirtualOutput(outputs, defaultTargets[i]), i + 1)

getVirtualInputs == MapKeys(virtualInputs)

getVirtualOutputs == MapKeys(virtualOutputs)

\* The record of an operation: its kind, the connection object and target it
\* is about, whether the target was new to that connection, how many devices
\* it created, and whether it changed connectionState.
MEvent(kind, c, target, first, made, changed) ==
    [kind |-> kind, conn |-> c, target |-> target, first |-> first,
     made |-> made, changed |-> changed]

NoMEvent == MEvent("none", 0, "-", FALSE, 0, FALSE)

InitManager ==
    /\ connection = 0
    /\ created = 0
    /\ connState = [c \in Conns |-> "none"]
    /\ handlers = [c \in Conns |-> FALSE]
    /\ pendingInit = {}
    /\ virtualInputs = << >>
    /\ virtualOutputs = << >>
    /\ isConnected = FALSE
    /\ connectionState = "disconnected"
    /\ stats = [messagesReceived |-> 0, bytesReceived |-> 0, latency |-> 0]
    /\ seen = [c \in Conns |-> {}]
    /\ mev = NoMEvent
    /\ notes = << >>
    /\ told = "disconnected"
    /\ outputSessions = {}

\* ---- initialize ----

\* initialize() up to its await: a new BrowserMIDIRTC('receiver') replaces
\* this.connection; whatever was there is left as it is.
ManagerInitialize ==
    /\ created < MaxConns
    /\ LET c == created + 1 IN
       /\ created' = c
       /\ connection' = c
       /\ connState' = [connState EXCEPT ![c] = "new"]
       /\ pendingInit' = pendingInit \cup {c}
       /\ mev' = MEvent("initialize", c, "-", FALSE, 0, FALSE)
    /\ notes' = << >>
    /\ UNCHANGED <<bvars, uvars, gvars, told, outputSessions,
                   handlers, virtualInputs, virtualOutputs, isConnected,
                   connectionState, stats, seen>>

\* Base class initialize() settles: the new connection becomes idle.
BaseInitialized(c, ok) ==
    connState' = [connState EXCEPT ![c] = IF ok /\ @ = "new" THEN "idle" ELSE @]

\* The await of connection c's initialize() settles; the continuation sets the
\* two callbacks on whatever this.connection is now (a TypeError when null).
ManagerInitializeResume(c, ok) ==
    /\ c \in pendingInit
    /\ pendingInit' = pendingInit \ {c}
    /\ BaseInitialized(c, ok)
    /\ handlers' = IF ok /\ connection # 0
                   THEN [handlers EXCEPT ![connection] = TRUE]
                   ELSE handlers
    /\ mev' = MEvent("initialized", c, "-", FALSE, 0, FALSE)
    /\ notes' = << >>
    /\ UNCHANGED <<bvars, uvars, gvars, told, outputSessions,
                   connection, created, virtualInputs, virtualOutputs,
                   isConnected, connectionState, stats, seen>>

\* ---- processOffer ----

\* Base class handleOffer: valid from idle with a well-formed offer; anything
\* else is rejected and leaves the session as it was.
BaseHandleOffer(c, wellFormed) ==
    connState' = [connState EXCEPT
                     ![c] = IF wellFormed /\ @ = "idle" THEN "answering" ELSE @]

ProcessOfferClearing(wellFormed) ==
    /\ IF connection = 0
       THEN /\ UNCHANGED connState
            /\ mev' = MEvent("offer-throws", 0, "-", FALSE, 0, FALSE)
       ELSE /\ BaseHandleOffer(connection, wellFormed)
            /\ mev' = MEvent(IF wellFormed /\ connState[connection] = "idle"
                             THEN "offer" ELSE "offer-rejected",
                             connection, "-", FALSE, 0, FALSE)
    /\ notes' = << >>
    /\ virtualInputs' = << >>
    /\ virtualOutputs' = << >>
    /\ UNCHANGED <<bvars, uvars, gvars, told, outputSessions,
                   connection, created, handlers, pendingInit,
                   isConnected, connectionState, stats, seen>>

ProcessOfferResolving(wellFormed) ==
    /\ IF connection = 0
       THEN /\ UNCHANGED connState
            /\ mev' = MEvent("offer", 0, "-", FALSE, 0, FALSE)
       ELSE /\ BaseHandleOffer(connection, wellFormed)
            /\ mev' = MEvent(IF wellFormed /\ connState[connection] = "idle"
                             THEN "offer" ELSE "offer-rejected",
                             connection, "-", FALSE, 0, FALSE)
    /\ notes' = << >>
    /\ UNCHANGED <<bvars, uvars, gvars, told, outputSessions,
                   connection, created, handlers, pendingInit,
                   virtualInputs, virtualOutputs, isConnected, connectionState,
                   stats, seen>>

\* processOffer(offerJSON): throws without a connection, else hands the offer
\* to the connection's handleOffer and returns its answer.
ProcessOffer(wellFormed) ==
    /\ IF connection = 0
       THEN /\ UNCHANGED connState
            /\ mev' = MEvent("offer-throws", 0, "-", FALSE, 0, FALSE)
       ELSE /\ BaseHandleOffer(connection, wellFormed)
            /\ mev' = MEvent(IF wellFormed /\ connState[connection] = "idle"
                             THEN "offer" ELSE "offer-rejected",
                             connection, "-", FALSE, 0, FALSE)
    /\ notes' = << >>
    /\ UNCHANGED <<bvars, uvars, gvars, told, outputSessions,
                   connection, created, handlers, pendingInit,
                   virtualInputs, virtualOutputs, isConnected, connectionState,
                   stats, seen>>

\* ---- handleMIDIMessage ----

handleMIDIMessage(c, target, length, latency) ==
    LET has     == MapHas(virtualInputs, target)
        inputs1 == IF ~has THEN createVirtualInput(virtualInputs, target)
                   ELSE virtualInputs
        found   == IF ~has THEN DiscoveryNotes(target) ELSE << >>
        toInput == IF MapGet(inputs1, target).onmidimessage
                   THEN << [kind |-> "inputmidi", arg |-> target] >> ELSE << >>
        toHost  == IF onMIDIMessageObserver
                   THEN << [kind |-> "midi", arg |-> target, length |-> length] >>
                   ELSE << >>
    IN /\ stats' = [messagesReceived |-> stats.messagesReceived + 1,
                    bytesReceived |-> stats.bytesReceived + length,
                    latency |-> latency]
       /\ virtualInputs' = inputs1
       /\ notes' = found \o toInput \o toHost
       /\ mev' = MEvent("midi", c, target, target \notin seen[c],
                        Len(inputs1) - Len(virtualInputs), FALSE)
       /\ seen' = [seen EXCEPT ![c] = @ \cup {target}]

\* The envelope of this step gets the next number; the host is handed it when
\* the onMIDIMessage observer has been called.
RecordManager(c) ==
    IF probe = "manager"
    THEN /\ arrived < MaxArrivals
         /\ arrived' = arrived + 1
         /\ wire' = [wire EXCEPT !["host"] =
                        IF \E i \in 1 .. Len(notes') : notes'[i].kind = "midi"
                        THEN Transmit(@, << c, arrived + 1 >>) ELSE @]
         /\ UNCHANGED <<probe, assigned>>
    ELSE UNCHANGED gvars

\* An envelope arrives on connection c; the base class decodes it and calls
\* the connection's onMIDIMessage.
Deliver(c, target, length, latency) ==
    /\ connState[c] = "connected"
    /\ handlers[c]
    /\ stats.messagesReceived < MaxMessages
    /\ handleMIDIMessage(c, target, length, latency)
    /\ RecordManager(c)
    /\ UNCHANGED <<bvars, uvars, told, outputSessions, connection, created, connState,
                   handlers, pendingInit, virtualOutputs, isConnected,
                   connectionState>>

\* ---- handleConnectionStateChange ----

\* The observer is called before the registries are touched: the note holds
\* what getVirtualInputs() and getVirtualOutputs() give it during the call.
handleConnectionStateChange(c, state) ==
    /\ connectionState' = state
    /\ isConnected' = (state = "connected")
    /\ notes' = IF onConnectionStateChange
                THEN << [kind |-> "state", arg |-> state,
                         inputs |-> getVirtualInputs,
                         outputs |-> getVirtualOutputs] >>
                ELSE << >>
    /\ told' = IF onConnectionStateChange THEN state ELSE told
    /\ outputSessions' = IF state = "connected" THEN outputSessions \cup {c}
                         ELSE outputSessions
    /\ virtualOutputs' =
           IF state = "connected" THEN CreateDefaultOutputs(virtualOutputs, 1)
           ELSE IF state \in {"disconnected", "failed"} THEN << >>
           ELSE virtualOutputs
    /\ virtualInputs' =
           IF state \in {"disconnected", "failed"} THEN << >> ELSE virtualInputs
    /\ mev' = MEvent("state", c, "-", FALSE,
                     IF state = "connected"
                     THEN Len(CreateDefaultOutputs(virtualOutputs, 1)) - Len(virtualOutputs)
                     ELSE 0,
                     state # connectionState)

\* ---- WebRTCMIDIUI: the observer of the connection state ----

\* startStatsUpdate: setInterval, unless this.statsInterval holds a timer.
startStatsUpdate ==
    /\ statsInterval' = TRUE
    /\ timers' = IF statsInterval THEN timers ELSE timers + 1

\* stopStatsUpdate: clearInterval of the timer this.statsInterval holds.
stopStatsUpdate ==
    /\ statsInterval' = FALSE
    /\ timers' = IF statsInterval THEN timers - 1 ELSE timers

\* updateConnectionStatus(state), the UI's onConnectionStateChange observer:
\* a state without a case in the switch changes nothing.
updateConnectionStatus(state) ==
    /\ UNCHANGED ui
    /\ CASE state = "connected" ->
              /\ statusText' = "Connected"
              /\ disconnectBtn' = "enabled"
              /\ startStatsUpdate
         [] state = "connecting" ->
              /\ statusText' = "Connecting..."
              /\ disconnectBtn' = "disabled"
              /\ UNCHANGED <<statsInterval, timers>>
         [] state \in {"disconnected", "failed"} ->
              /\ statusText' = "Disconnected"
              /\ disconnectBtn' = "disabled"
              /\ stopStatsUpdate
         [] OTHER -> UNCHANGED <<statusText, disconnectBtn, statsInterval, timers>>

\* The states the base class may report next for a connection in state s.
BaseNextStates(s) ==
    CASE s = "answering" -> {"connecting", "connected", "failed"}
      [] s = "connected" -> {"disconnected", "failed"}
      [] OTHER           -> {}

\* Connection c changes state and reports it through onConnectionStateChange.
ConnStateChange(c, state) ==
    /\ state \in BaseNextStates(connState[c])
    /\ connState' = [connState EXCEPT ![c] = IF state = "connecting" THEN @ ELSE state]
    /\ IF handlers[c]
       THEN /\ handleConnectionStateChange(c, state)
            /\ IF ui /\ onConnectionStateChange
               THEN updateConnectionStatus(state) ELSE UNCHANGED uvars
       ELSE /\ mev' = MEvent("unobserved", c, "-", FALSE, 0, FALSE)
            /\ notes' = << >>
            /\ UNCHANGED <<virtualInputs, virtualOutputs, isConnected,
                           connectionState, told, outputSessions, uvars>>
    /\ UNCHANGED <<bvars, gvars, connection, created, handlers, pendingInit, stats,
                   seen>>

\* ---- getStats ----

\* Base class getStats(): the state of the connection.
BaseGetStats(c) == [connectionState |-> connState[c]]

\* getStats(): the manager's counters, overlaid by the connection's stats
\* when there is a connection, then by the registry's size and targets.
getStats ==
    LET own == [virtualInputs |-> Len(virtualInputs),
                targets |-> MapKeys(virtualInputs)]
    IN IF connection # 0
       THEN own @@ BaseGetStats(connection) @@ stats
       ELSE own @@ stats

\* ---- disconnect ----

\* Base class close() of a connection object of the manager.
BaseCloseConnection(c) ==
    connState' = IF c = 0 THEN connState ELSE [connState EXCEPT ![c] = "closed"]

DisconnectResettingStats ==
    /\ BaseCloseConnection(connection)
    /\ connection' = 0
    /\ virtualInputs' = << >>
    /\ isConnected' = FALSE
    /\ connectionState' = "disconnected"
    /\ stats' = [messagesReceived |-> 0, bytesReceived |-> 0, latency |-> 0]
    /\ mev' = MEvent("disconnect", connection, "-", FALSE, 0,
                     connectionState # "disconnected")
    /\ notes' = << >>
    /\ UNCHANGED <<bvars, uvars, gvars, told, outputSessions,
                   created, handlers, pendingInit, virtualOutputs, seen>>

Disconnect ==
    /\ BaseCloseConnection(connection)
    /\ connection' = 0
    /\ virtualInputs' = << >>
    /\ isConnected' = FALSE
    /\ connectionState' = "disconnected"
    /\ mev' = MEvent("disconnect", connection, "-", FALSE, 0,
                     connectionState # "disconnected")
    /\ notes' = << >>
    /\ UNCHANGED <<bvars, uvars, gvars, told, outputSessions,
                   created, handlers, pendingInit, virtualOutputs, stats,
                   seen>>

\* ---- the host's device layer (SpecAPI) ----

\* virtualInput.addEventListener('midimessage', handler)
AddEventListener(target) ==
    /\ MapHas(virtualInputs, target)
    /\ ~MapGet(virtualInputs, target).onmidimessage
    /\ virtualInputs' = MapSet(virtualInputs,
                               [target |-> target, onmidimessage |-> TRUE])
    /\ mev' = MEvent("listen", 0, target, FALSE, 0, FALSE)
    /\ notes' = << >>
    /\ UNCHANGED <<bvars, uvars, gvars, told, outputSessions,
                   connection, created, connState, handlers, pendingInit,
                   virtualOutputs, isConnected, connectionState, stats, seen>>

Next ==
    \/ ManagerInitialize
    \/ \E c \in Conns, ok \in BOOLEAN : ManagerInitializeResume(c, ok)
    \/ \E wellFormed \in BOOLEAN : ProcessOffer(wellFormed)
    \/ \E c \in Conns, t \in InboundTargets, n \in PayloadLengths, l \in Latencies :
          Deliver(c, t, n, l)
    \/ \E c \in Conns, s \in {"connecting", "connected", "disconnected", "failed"} :
          ConnStateChange(c, s)
    \/ Disconnect

Init == InitBridgeDefault /\ InitManager /\ ProbeOff /\ NoUI

Spec == Init /\ [][Next]_vars

InitAnyBridge == InitBridge /\ InitManager /\ ProbeOff /\ NoUI

SpecBridge == InitAnyBridge /\ [][NextBridge]_vars

\* A connection object in the main process whose host assigns the
\* onMIDIMessage field at any time, before or after initialize(); the edge
\* from the peer-to-peer channel to RTP-MIDI is set or not.
InitObserved ==
    /\ platform = "main"
    /\ role \in {"sender", "receiver"}
    /\ bridgeConfig \in { DefaultBridgeConfig,
                          [DefaultBridgeConfig EXCEPT !.webrtcToRtpMidi = FALSE] }
    /\ channelMapping = << >>
    /\ BridgeConstructed
    /\ InitManager
    /\ ProbeOff
    /\ NoUI

\* The peer-to-peer and RTP-MIDI side of the connection object; hardware
\* messages play no part in what an inbound peer-to-peer message does.
NextObserved ==
    \/ \E o \in InitOptionSets : Initialize(o)
    \/ \E ok \in BOOLEAN : ResumeWrtc(ok)
    \/ \E ok \in BOOLEAN, hasWebMIDI \in BOOLEAN : ResumeSuper(ok, hasWebMIDI)
    \/ \E ok \in BOOLEAN : ResumeMidi(ok)
    \/ \E ok \in BOOLEAN : ResumeRtp(ok)
    \/ Close
    \/ BaseChannelOpen
    \/ RtpMidiMessage
    \/ WebRTCMessage
    \/ \E h \in {"host", "none"} : AssignOnMIDIMessage(h)

SpecObserved == InitObserved /\ [][NextObserved]_vars

\* ---- WebRTCMIDIUI ----

\* new WebRTCMIDIUI(controller): no timer; the status text and the state of
\* the disconnect button are those of the page's markup.
UIConstructed ==
    /\ ui = TRUE
    /\ statsInterval = FALSE
    /\ timers = 0
    /\ statusText = "markup"
    /\ disconnectBtn \in {"enabled", "disabled"}

\* init(): the one call of manager.initialize() the UI makes.
UIInit ==
    /\ created = 0
    /\ ManagerInitialize

\* init() has set up the button listeners: it does so once its await of
\* manager.initialize() has resolved.
UIListening ==
    /\ created > 0
    /\ pendingInit = {}
    /\ connState[1] # "new"

\* The user clicks the process-offer button with an offer in the input field.
UIProcessOffer(wellFormed) ==
    /\ UIListening
    /\ ProcessOffer(wellFormed)

\* The user clicks the disconnect button and answers the confirm dialog; a
\* disabled button takes no click.  disconnect() calls manager.disconnect(),
\* empties the offer and answer fields and the device list, and leaves the
\* status display and the timer alone.
UIDisconnect(confirmed) ==
    /\ UIListening
    /\ disconnectBtn = "enabled"
    /\ confirmed
    /\ Disconnect

InitUI == InitBridgeDefault /\ InitManager /\ ProbeOff /\ UIConstructed

\* The manager driven by a WebRTCMIDIUI and its user.
NextUI ==
    \/ UIInit
    \/ \E c \in Conns, ok \in BOOLEAN : ManagerInitializeResume(c, ok)
    \/ \E wellFormed \in BOOLEAN : UIProcessOffer(wellFormed)
    \/ \E c \in Conns, t \in InboundTargets, n \in PayloadLengths, l \in Latencies :
          Deliver(c, t, n, l)
    \/ \E c \in Conns, st \in {"connecting", "connected", "disconnected", "failed"} :
          ConnStateChange(c, st)
    \/ \E confirmed \in BOOLEAN : UIDisconnect(confirmed)

SpecUI == InitUI /\ [][NextUI]_vars

\* The host calls createVirtualInput(target) itself.
CreateVirtualInput(target) ==
    /\ virtualInputs' = createVirtualInput(virtualInputs, target)
    /\ notes' = DiscoveryNotes(target)
    /\ mev' = MEvent("create", 0, target, ~MapHas(virtualInputs, target),
                     Len(createVirtualInput(virtualInputs, target)) - Len(virtualInputs),
                     FALSE)
    /\ UNCHANGED <<bvars, uvars, gvars, told, outputSessions,
                   connection, created, connState, handlers, pendingInit,
                   virtualOutputs, isConnected, connectionState, stats, seen>>

\* Base class isConnected().
BaseIsConnected(c) == connState[c] = "connected"

ManagerSendMIDIDefault(target) ==
    IF connection = 0 \/ ~BaseIsConnected(connection) THEN << >>
    ELSE << [kind |-> "transmit", arg |-> "default", conn |-> connection] >>

\* WebRTCMIDIManager.sendMIDI(data, timestamp, target): the call of
\* connection.sendMIDI it makes, on this.connection, when that is connected.
ManagerSendMIDI(target) ==
    IF connection = 0 \/ ~BaseIsConnected(connection) THEN << >>
    ELSE << [kind |-> "transmit", arg |-> target, conn |-> connection] >>

\* The payloads a host hands to sendMIDI: sequences of MIDI bytes.
Payloads == { << 144, 60, 100 >>, << 248 >> }

\* new Uint8Array(data): every element is taken modulo 256.
Uint8Array(data) == [i \in 1 .. Len(data) |-> data[i] % 256]

ManagerSendMIDIReturnsTrue(target) == TRUE

\* What WebRTCMIDIManager.sendMIDI returns: false from the early return,
\* true after the call of connection.sendMIDI.
ManagerSendMIDIReturns(target) ==
    IF connection = 0 \/ ~BaseIsConnected(connection) THEN FALSE ELSE TRUE

\* The host calls manager.sendMIDI(data, timestamp, target); data is a
\* Uint8Array already, or an array that is converted.
SendMIDI(data, isUint8Array, target) ==
    /\ notes' = [i \in 1 .. Len(ManagerSendMIDI(target)) |->
                    ManagerSendMIDI(target)[i]
                    @@ [data |-> IF isUint8Array THEN data ELSE Uint8Array(data)]]
    /\ mev' = MEvent("sendMIDI", connection, target, FALSE, 0, FALSE)
               @@ [data |-> data, returned |-> ManagerSendMIDIReturns(target)]
    /\ UNCHANGED <<bvars, uvars, gvars, told, outputSessions,
                   connection, created, connState, handlers, pendingInit,
                   virtualInputs, virtualOutputs, isConnected, connectionState,
                   stats, seen>>

\* The host calls send(data, timestamp) of a virtual output object that was
\* created for target when connection c reported 'connected'; the host may
\* have kept the object after the session ended.
OutputSend(c, target) ==
    /\ c \in outputSessions
    /\ notes' = ManagerSendMIDI(target)
    /\ mev' = MEvent("send", c, target, FALSE, 0, FALSE)
    /\ UNCHANGED <<bvars, uvars, gvars, told, outputSessions,
                   connection, created, connState, handlers, pendingInit,
                   virtualInputs, virtualOutputs, isConnected, connectionState,
                   stats, seen>>

NextAPI ==
    \/ Next
    \/ \E t \in InboundTargets : AddEventListener(t)
    \/ \E t \in InboundTargets : CreateVirtualInput(t)

\* The manager together with a host device layer that listens on the virtual
\* inputs and calls createVirtualInput itself.
SpecAPI == Init /\ [][NextAPI]_vars

\* Either machine alone, with its messages numbered in the order they arrive:
\* a connection object in the renderer or the main process, or the manager.
\* The two share no state.  The envelopes all carry three bytes: the length
\* of a payload plays no part in the order of delivery or in teardown.
InitEither ==
    /\ probe \in {"bridge", "manager"}
    /\ arrived = 0
    /\ wire = [d \in WireDests |-> << >>]
    /\ assigned = "none"
    /\ NoUI
    /\ InitManager
    /\ IF probe = "bridge"
       THEN /\ platform \in {"renderer", "main"}
            /\ role \in {"sender", "receiver"}
            /\ bridgeConfig = DefaultBridgeConfig
            /\ channelMapping = << >>
            /\ BridgeConstructed
       ELSE InitBridgeDefault

NextEither ==
    \/ \E o \in InitOptionSets : probe = "bridge" /\ Initialize(o)
    \/ \E ok \in BOOLEAN : probe = "bridge" /\ ResumeWrtc(ok)
    \/ \E ok \in BOOLEAN, hasWebMIDI \in BOOLEAN :
          probe = "bridge" /\ ResumeSuper(ok, hasWebMIDI)
    \/ \E ok \in BOOLEAN : probe = "bridge" /\ ResumeMidi(ok)
    \/ \E ok \in BOOLEAN : probe = "bridge" /\ ResumeRtp(ok)
    \/ probe = "bridge" /\ Close
    \/ probe = "bridge" /\ BaseChannelOpen
    \/ \E d \in DeviceNames : probe = "bridge" /\ Plug(d)
    \/ \E d \in DeviceNames : probe = "bridge" /\ WebMIDIMessage(d)
    \/ \E p \in DeviceNames : probe = "bridge" /\ NodeMIDIMessage(p)
    \/ probe = "bridge" /\ RtpMidiMessage
    \/ \E src \in {"usb", "rtpmidi"} : probe = "bridge" /\ LateMessage(src)
    \/ probe = "bridge" /\ WebRTCMessage
    \/ \E t \in HostTargets : probe = "bridge" /\ HostSendMIDI(t)
    \/ probe = "manager" /\ ManagerInitialize
    \/ \E c \in Conns, ok \in BOOLEAN :
          probe = "manager" /\ ManagerInitializeResume(c, ok)
    \/ \E wellFormed \in BOOLEAN : probe = "manager" /\ ProcessOffer(wellFormed)
    \/ \E c \in Conns, t \in InboundTargets, l \in Latencies :
          probe = "manager" /\ Deliver(c, t, 3, l)
    \/ \E c \in Conns, st \in {"connecting", "connected", "disconnected", "failed"} :
          probe = "manager" /\ ConnStateChange(c, st)
    \/ probe = "manager" /\ Disconnect

SpecEither == InitEither /\ [][NextEither]_vars

\* The sessions of the manager and a host that sends through the virtual
\* output objects it was given; inbound envelopes play no part in sending.
NextOutputs ==
    \/ ManagerInitialize
    \/ \E c \in Conns, ok \in BOOLEAN : ManagerInitializeResume(c, ok)
    \/ \E wellFormed \in BOOLEAN : ProcessOffer(wellFormed)
    \/ \E c \in Conns, st \in {"connecting", "connected", "disconnected", "failed"} :
          ConnStateChange(c, st)
    \/ Disconnect
    \/ \E c \in Conns, i \in 1 .. Len(defaultTargets) :
          OutputSend(c, defaultTargets[i])
    \/ \E data \in Payloads, isUint8Array \in BOOLEAN, t \in {"default", "lead"} :
          SendMIDI(data, isUint8Array, t)

SpecOutputs == Init /\ [][NextOutputs]_vars

\* The sessions of the manager and a host that calls createVirtualInput for
\* targets that may or may not have a virtual input already.  An inbound
\* envelope writes the registry through the same createVirtualInput, and only
\* for a target without input: the host's calls cover it.
NextRegistry ==
    \/ ManagerInitialize
    \/ \E c \in Conns, ok \in BOOLEAN : ManagerInitializeResume(c, ok)
    \/ \E wellFormed \in BOOLEAN : ProcessOffer(wellFormed)
    \/ \E c \in Conns, st \in {"connecting", "connected", "disconnected", "failed"} :
          ConnStateChange(c, st)
    \/ Disconnect
    \/ \E t \in InboundTargets : CreateVirtualInput(t)

SpecRegistry == Init /\ [][NextRegistry]_vars

\* ====================================================== the manager's claims

\* The connection objects that were created and not closed.
Live == { c \in Conns : connState[c] \notin {"none", "closed"} }

\* The discovery notifications the last operation fired.
Discoveries == SelectSeq(notes, LAMBDA n : n.kind = "discovered")

\* C2: single session.  At most one connection object is live, and an
\* envelope handled by handleMIDIMessage comes from the manager's current
\* connection, never from a superseded one.
C2_SingleSession ==
    /\ Cardinality(Live) <= 1
    /\ mev.kind = "midi" => mev.conn = connection

\* C3: whenever connectionState has just become 'disconnected' or 'failed',
\* by a report of the connection or by disconnect(), both registries are
\* empty.
C3_DisconnectClears ==
    (/\ mev.kind \in {"state", "disconnect"}
     /\ connectionState \in {"disconnected", "failed"}
     /\ mev.changed)
    => (getVirtualInputs = << >> /\ getVirtualOutputs = << >>)

\* C7: right after any report of 'connected', getVirtualOutputs() is exactly
\* default, synth, control, feedback, also when outputs existed already.
C7_FourOutputs ==
    (mev.kind = "state" /\ connectionState = "connected")
    => getVirtualOutputs = defaultTargets

\* 'connected' was reported while the four outputs of an earlier session were
\* still registered: none was created anew.
C7_Witness ==
    /\ mev.kind = "state"
    /\ connectionState = "connected"
    /\ mev.made = 0
    /\ Len(virtualOutputs) = 4

\* C8: the first envelope a connection delivers for a target creates one
\* virtual input and fires one discovery; every later one of that connection
\* creates nothing and fires none.
C8_FirstEnvelopeDiscovers ==
    mev.kind = "midi" =>
        IF mev.first
        THEN mev.made = 1 /\ Discoveries = << [kind |-> "discovered", arg |-> mev.target] >>
        ELSE mev.made = 0 /\ Discoveries = << >>

\* C9: createVirtualInput for a target that already has a virtual input
\* leaves the registry (the device and its handler) as it is and fires no
\* discovery notification.
C9_CreateInputIdempotent ==
    [][ (mev'.kind = "create" /\ MapHas(virtualInputs, mev'.target))
        => (virtualInputs' = virtualInputs /\ notes' = << >>) ]_vars

\* C12: the onConnectionStateChange observer has been told every change of
\* connectionState: connectionState is the last state it was told, or the
\* initial 'disconnected' when it was never told.
C12_ObserverInSync ==
    connectionState = told

\* The payload length the onMIDIMessage observer was handed by the last
\* operation.
DeliveredLength(ns) ==
    ns[CHOOSE i \in 1 .. Len(ns) : ns[i].kind = "midi"].length

C14_RejectedOfferUnchanged ==
    [][ mev'.kind \in {"offer-rejected", "offer-throws"}
        => UNCHANGED <<connectionState, isConnected, virtualInputs,
                       virtualOutputs, stats, connState, connection>> ]_vars

\* A malformed offer was rejected in a connected session that has inputs and
\* outputs and has counted a message.
C14_Witness ==
    /\ mev.kind = "offer-rejected"
    /\ connectionState = "connected"
    /\ Len(virtualOutputs) = 4
    /\ Len(virtualInputs) > 0
    /\ stats.messagesReceived > 0

\* The calls of connection.sendMIDI the last operation made.
Transmissions == SelectSeq(notes, LAMBDA n : n.kind = "transmit")

\* C18: send() of a virtual output hands the payload to the manager's
\* connection with exactly the target the output was created for, once when
\* that connection is connected, and never with another target.
C18_OutputSendsBoundTarget ==
    mev.kind = "send" =>
        /\ \A i \in 1 .. Len(Transmissions) : Transmissions[i].arg = mev.target
        /\ (connection # 0 /\ BaseIsConnected(connection))
              => Len(Transmissions) = 1

\* The output created for "feedback" sent on the connected session.
C18_Witness ==
    /\ mev.kind = "send"
    /\ mev.target = "feedback"
    /\ Len(Transmissions) = 1
    /\ Transmissions[1].arg = "feedback"

\* C19: send() of a virtual output object transmits only on the connection
\* whose 'connected' report created it, never on a later session.
C19_OutputsConnectionScoped ==
    mev.kind = "send" =>
        \A i \in 1 .. Len(Transmissions) : Transmissions[i].conn = mev.conn

\* C20: a second close() made directly after a close() leaves midiAccess,
\* the port handlers, midiInputs, rtpMidiSession, rtpMidiEnabled and the base
\* state as the first left them and releases nothing again; a second
\* disconnect() made directly after a disconnect() leaves connection, the
\* registries, connectionState and isConnected as they were and closes no
\* connection again.
C20_TeardownIdempotent ==
    [][ /\ (ev.origin = "close" /\ ev'.origin = "close")
           => /\ UNCHANGED <<midiAccess, onstatechange, portHandler, midiInputs,
                             rtpMidiSession, rtpMidiEnabled, closed, channel>>
              /\ out' = << >>
        /\ (mev.kind = "disconnect" /\ mev'.kind = "disconnect")
           => /\ UNCHANGED <<connection, virtualInputs, virtualOutputs,
                             connectionState, isConnected, connState>>
              /\ mev'.conn = 0 ]_vars

\* close() was called again on a connection that had opened ports and a
\* session and is closed: it released nothing.
C20_Witness ==
    /\ ev.origin = "close"
    /\ out = << >>
    /\ closed
    /\ midi
    /\ pc = "done"

VirtualInputIds == [i \in 1 .. Len(virtualInputs) |-> InputId(virtualInputs[i].target)]

VirtualOutputIds == [i \in 1 .. Len(virtualOutputs) |-> OutputId(virtualOutputs[i].target)]

\* No two elements of the sequence are equal.
Distinct(s) == \A i, j \in 1 .. Len(s) : i # j => s[i] # s[j]

\* C21: getVirtualInputs() never holds two devices with the same target or
\* the same id, and neither does getVirtualOutputs().
C21_OneDevicePerTarget ==
    /\ Distinct(getVirtualInputs)
    /\ Distinct(getVirtualOutputs)
    /\ Distinct(VirtualInputIds)
    /\ Distinct(VirtualOutputIds)

\* The host called createVirtualInput for a target that had an input, while
\* two inputs and the four outputs of a session reported twice were there.
C21_Witness ==
    /\ mev.kind = "create"
    /\ ~mev.first
    /\ Len(virtualInputs) = 2
    /\ Len(virtualOutputs) = 4

\* C23: manager.sendMIDI returns true exactly when it issued one transmit on
\* the manager's connection with the payload and the target it was given;
\* without a connection, or with a connection that is not connected, it
\* returns false and transmits nothing; it never changes the manager's state.
C23_SendMIDIReturn ==
    [][ mev'.kind = "sendMIDI" =>
          /\ mev'.returned <=>
                 /\ Len(Transmissions') = 1
                 /\ Transmissions'[1].arg = mev'.target
                 /\ Transmissions'[1].data = mev'.data
                 /\ Transmissions'[1].conn = connection
          /\ (connection = 0 \/ ~BaseIsConnected(connection))
                 => (~mev'.returned /\ Transmissions' = << >>)
          /\ UNCHANGED <<connection, connState, virtualInputs, virtualOutputs,
                         isConnected, connectionState, stats>> ]_vars

\* sendMIDI returned false on a connection that had been connected and was
\* reported disconnected, with the manager still holding it.
C23_Witness ==
    /\ mev.kind = "sendMIDI"
    /\ ~mev.returned
    /\ connection # 0
    /\ connState[connection] = "disconnected"
    /\ notes = << >>

\* processOffer was called by the last operation.
OfferKinds == {"offer", "offer-rejected", "offer-throws"}

\* An initialize() of the manager has completed for the connection it holds.
InitializeCompleted ==
    /\ connection # 0
    /\ connection \notin pendingInit
    /\ connState[connection] # "new"

\* C26 as claimed: until an initialize() has completed, and after a
\* disconnect() until the next one, processOffer throws without calling into
\* a connection and without changing the manager's state.
C26_RejectsUntilInitialized ==
    [][ (mev'.kind \in OfferKinds /\ ~InitializeCompleted)
        => /\ mev'.kind = "offer-throws"
           /\ mev'.conn = 0
           /\ UNCHANGED <<connection, connState, handlers, pendingInit,
                          virtualInputs, virtualOutputs, isConnected,
                          connectionState, stats>> ]_vars

\* C26, amended: while this.connection is null (before initialize() has been
\* called, and after disconnect() until initialize() is called again)
\* processOffer throws without calling into a connection and without
\* changing the manager's state.
C26_RejectsWithoutConnection ==
    [][ (mev'.kind \in OfferKinds /\ connection = 0)
        => /\ mev'.kind = "offer-throws"
           /\ mev'.conn = 0
           /\ UNCHANGED <<connection, connState, handlers, pendingInit,
                          virtualInputs, virtualOutputs, isConnected,
                          connectionState, stats>> ]_vars

\* processOffer threw after disconnect() had closed a connected session
\* whose outputs are still registered.
C26_Witness ==
    /\ mev.kind = "offer-throws"
    /\ connection = 0
    /\ connState[1] = "closed"
    /\ Len(virtualOutputs) = 4

\* The calls of the onConnectionStateChange observer the last operation made.
StateNotes == SelectSeq(notes, LAMBDA n : n.kind = "state")

\* C27: when the onConnectionStateChange observer is called with a state, the
\* registries it reads already reflect that state: the four virtual outputs
\* on 'connected', no virtual input and no virtual output on 'disconnected'
\* and 'failed'.
C27_ObserverSeesRegistry ==
    \A i \in 1 .. Len(StateNotes) :
        /\ StateNotes[i].arg = "connected"
              => StateNotes[i].outputs = defaultTargets
        /\ StateNotes[i].arg \in {"disconnected", "failed"}
              => (StateNotes[i].inputs = << >> /\ StateNotes[i].outputs = << >>)

\* C30: isConnected is true exactly when connectionState is 'connected', and
\* while it is true the manager holds a connection object.
C30_ConnectedHasConnection ==
    /\ isConnected <=> connectionState = "connected"
    /\ isConnected => connection # 0

\* C31: the UI has at most one stats timer, and whenever the manager's
\* connection is not connected (after the user disconnected through the UI,
\* after 'disconnected', 'failed' or another non-connected state was
\* reported) no timer is active and the status text is not 'Connected'.
C31_TimerOnlyWhileConnected ==
    ui =>
        /\ timers <= 1
        /\ connectionState # "connected"
              => (timers = 0 /\ statusText # "Connected")

====
